---- MODULE Spec2Model ----
(***************************************************************************)
(* A model of nes/rom.py: the NesRom object (rom_name, rom_data, rom_size) *)
(* its accessors and print_analysis.                                       *)
(*                                                                         *)
(* The module is Python 2 code (print_function is imported from           *)
(* __future__, NesRom derives from object): a bytearray compares equal to  *)
(* a str holding the same bytes and / on two ints is floor division.       *)
(* rom_data is a sequence of bytes; Python's index i is position i + 1.    *)
(* A call returns a record: raised tells whether it ended in IndexError,   *)
(* value is what it returned.                                              *)
(***************************************************************************)
EXTENDS Integers, Sequences, FiniteSets, TLC

VARIABLES
    rom_name,   \* self.rom_name
    rom_data,   \* self.rom_data
    rom_size,   \* self.rom_size
    op,         \* the method called last
    ret,        \* what it returned, or that it raised
    out,        \* the lines the last print_analysis printed
    calls,      \* the accessors the last print_analysis called, in order
    analyses    \* how many times print_analysis has been called

vars == <<rom_name, rom_data, rom_size, op, ret, out, calls, analyses>>

-----------------------------------------------------------------------------
(* Bounds of the model *)

\* the longest image drawn
MaxLen == 17

\* the most calls of print_analysis on one object
MaxAnalyses == 2

-----------------------------------------------------------------------------
(* Python primitives *)

Byte == 0..255

Min(a, b) == IF a < b THEN a ELSE b

Max(a, b) == IF a < b THEN b ELSE a

RECURSIVE Pow2(_)
Pow2(n) == IF n = 0 THEN 1 ELSE 2 * Pow2(n - 1)

\* x >> n and x << n on Python ints (unbounded, no wrap-around)
Shr(x, n) == x \div Pow2(n)

Shl(x, n) == x * Pow2(n)

RECURSIVE BitAnd(_, _)
BitAnd(x, y) ==
    IF x = 0 \/ y = 0 THEN 0
    ELSE (x % 2) * (y % 2) + 2 * BitAnd(x \div 2, y \div 2)

RECURSIVE BitOr(_, _)
BitOr(x, y) ==
    IF x = 0 THEN y
    ELSE IF y = 0 THEN x
    ELSE Max(x % 2, y % 2) + 2 * BitOr(x \div 2, y \div 2)

\* d[i] is in range (i >= 0)
InRange(d, i) == i < Len(d)

\* d[i], for i in range
At(d, i) == d[i + 1]

\* the slice d[lo:hi], which never raises and stops at the end of d
Slice(d, lo, hi) == SubSeq(d, lo + 1, Min(hi, Len(d)))

Return(v) == [raised |-> FALSE, value |-> v]

\* an index out of range: the call ends in IndexError
Raise == [raised |-> TRUE, value |-> "IndexError"]

DecDigits == <<"0", "1", "2", "3", "4", "5", "6", "7", "8", "9">>

HexDigits ==
    <<"0", "1", "2", "3", "4", "5", "6", "7", "8", "9", "A", "B", "C", "D", "E", "F">>

\* str(n) / '{}'.format(n) of an int n >= 0
RECURSIVE Str(_)
Str(n) == IF n < 10 THEN DecDigits[n + 1] ELSE Str(n \div 10) \o DecDigits[(n % 10) + 1]

\* s.ljust(w)
RECURSIVE Ljust(_, _)
Ljust(s, w) == IF Len(s) >= w THEN s ELSE Ljust(s \o " ", w)

\* sep.join(strs)
RECURSIVE Join(_, _)
Join(sep, strs) ==
    IF strs = <<>> THEN ""
    ELSE IF Len(strs) = 1 THEN strs[1]
    ELSE strs[1] \o sep \o Join(sep, Tail(strs))

\* os.path.basename of a path given by its components
basename(path) == IF path = <<>> THEN "" ELSE path[Len(path)]

-----------------------------------------------------------------------------
(* The collaborators nes.settings and nes.mappers *)

build ==
    [major_version |-> "major", minor_version |-> "minor",
     author |-> "author", author_email |-> "author_email"]

KnownMappers == {0, 1, 2, 3, 4}

\* lookup: the entry of a known id, the sentinel otherwise; it never fails
find(id) ==
    IF id \in KnownMappers
    THEN [name |-> "Mapper" \o Str(id), examples |-> "Examples" \o Str(id)]
    ELSE [name |-> "Unknown", examples |-> "None"]

-----------------------------------------------------------------------------
(* Module functions *)

nesi_information ==
    "nesi " \o build.major_version \o "." \o build.minor_version \o " by "
        \o build.author \o " (" \o build.author_email \o ")"

fmt_str(tag, string) == Ljust(tag, 12) \o " | " \o string

-----------------------------------------------------------------------------
(* NesRom accessors, as functions of rom_data *)

\* battery with the trainer's shift
battery_shift2(d) ==
    IF ~InRange(d, 6) THEN Raise
    ELSE Return(IF BitAnd(Shr(At(d, 6), 2), 1) = 1 THEN "Yes" ELSE "No")

battery(d) ==
    IF ~InRange(d, 6) THEN Raise
    ELSE Return(IF BitAnd(Shr(At(d, 6), 1), 1) = 1 THEN "Yes" ELSE "No")

fourscreen(d) ==
    IF ~InRange(d, 6) THEN Raise
    ELSE Return(IF BitAnd(Shr(At(d, 6), 3), 1) = 1 THEN "Yes" ELSE "No")

trainer(d) ==
    IF ~InRange(d, 6) THEN Raise
    ELSE Return(IF BitAnd(Shr(At(d, 6), 2), 1) = 1 THEN "Yes" ELSE "None")

\* mapper_id without the left shift of byte 7's nibble
mapper_id_no_shl(d) ==
    IF ~InRange(d, 6) \/ ~InRange(d, 7) THEN Raise
    ELSE Return(BitOr(Shr(At(d, 6), 4), Shr(At(d, 7), 4)))

mapper_id(d) ==
    IF ~InRange(d, 6) \/ ~InRange(d, 7) THEN Raise
    ELSE Return(BitOr(Shr(At(d, 6), 4), Shl(Shr(At(d, 7), 4), 4)))

mapper(d) ==
    LET id == mapper_id(d)
    IN  IF id.raised THEN Raise
        ELSE Return(Str(id.value) \o " (" \o find(id.value).name \o ")")

examples(d) ==
    LET id == mapper_id(d)
    IN  IF id.raised THEN Raise ELSE Return(find(id.value).examples)

mirroring(d) ==
    IF ~InRange(d, 6) THEN Raise
    ELSE Return(IF BitAnd(At(d, 6), 1) = 1 THEN "Vertical" ELSE "Horizontal")

\* hex(n).replace('0x', '').upper()
RECURSIVE fmt_hex_str(_)
fmt_hex_str(n) ==
    IF n < 16 THEN HexDigits[n + 1]
    ELSE fmt_hex_str(n \div 16) \o HexDigits[(n % 16) + 1]

header(d) ==
    LET bytes == Slice(d, 0, 16)
    IN  Return(Join(" ", [i \in 1..Len(bytes) |-> fmt_hex_str(bytes[i])]))

dirty_header(d) ==
    LET bytes == Slice(d, 6, 17)
    IN  Return(\A i \in 1..Len(bytes) : bytes[i] = 0)

Magic == <<78, 69, 83, 26>>

\* contains_magic_number comparing 'NES' alone
contains_magic_number_nes(d) == Return(Slice(d, 0, 3) = SubSeq(Magic, 1, 3))

contains_magic_number(d) == Return(Slice(d, 0, 4) = Magic)

\* prg_count with chr_count's page size
prg_count_by8(d) ==
    IF ~InRange(d, 4) THEN Raise
    ELSE Return(Str(At(d, 4) * 8) \o "kb (" \o Str(At(d, 4)) \o " x 16kb pages)")

prg_count(d) ==
    IF ~InRange(d, 4) THEN Raise
    ELSE Return(Str(At(d, 4) * 16) \o "kb (" \o Str(At(d, 4)) \o " x 16kb pages)")

chr_count(d) ==
    IF ~InRange(d, 5) THEN Raise
    ELSE Return(Str(At(d, 5) * 8) \o "kb (" \o Str(At(d, 5)) \o " x 8kb pages)")

-----------------------------------------------------------------------------
(* print_analysis *)

StatusInvalid == fmt_str("Status", "Does not appear to be a valid .nes rom")

StatusValid == fmt_str("Status", "Appears to be a valid .nes rom")

NotesClean == fmt_str("Note(s)", "Bytes 7-15 appear clean")

NotesDirty == fmt_str("Note(s)", "Bytes 7-15 appear to not be clean!")

rom_line(name, size) ==
    fmt_str("ROM", name \o " (" \o Str(size) \o " bytes, " \o Str(size \div 1024) \o "kb)")

\* print(fmt_str(tag, self.fn())) after the lines printed so far: nothing
\* more happens once a call has raised
PrintCall(p, fn, r, tag) ==
    IF p.raised THEN p
    ELSE [raised |-> r.raised,
          calls  |-> Append(p.calls, fn),
          out    |-> IF r.raised THEN p.out ELSE Append(p.out, fmt_str(tag, r.value))]

\* what print_analysis has printed and called when it tests the signature
Preamble(name, size) ==
    [raised |-> FALSE,
     calls  |-> <<"contains_magic_number">>,
     out    |-> <<nesi_information, "", rom_line(name, size)>>]

\* print_analysis from the header line on
Decoded(p1, d) ==
    LET p2  == PrintCall(p1, "header", header(d), "Header")
        p3  == [p2 EXCEPT !.calls = Append(@, "dirty_header"),
                          !.out = Append(@, IF dirty_header(d).value
                                            THEN NotesDirty ELSE NotesClean)]
        p4  == PrintCall(p3, "prg_count", prg_count(d), "PRG")
        p5  == PrintCall(p4, "chr_count", chr_count(d), "CHR")
        p6  == PrintCall(p5, "mapper", mapper(d), "Mapper")
        p7  == PrintCall(p6, "examples", examples(d), "Example(s)")
        p8  == PrintCall(p7, "mirroring", mirroring(d), "Mirroring")
        p9  == PrintCall(p8, "trainer", trainer(d), "Trainer")
        p10 == PrintCall(p9, "fourscreen", fourscreen(d), "FourScreen")
    IN  PrintCall(p10, "battery", battery(d), "Battery")

\* print_analysis without the return after an invalid status
print_analysis_no_bail(name, d, size) ==
    LET p0 == Preamble(name, size)
    IN  Decoded([p0 EXCEPT !.out = Append(@, IF contains_magic_number(d).value
                                             THEN StatusValid ELSE StatusInvalid)], d)

\* the lines printed, the accessors called and whether the call raised
print_analysis(name, d, size) ==
    LET p0 == Preamble(name, size)
    IN  IF contains_magic_number(d).value
        THEN Decoded([p0 EXCEPT !.out = Append(@, StatusValid)], d)
        ELSE [p0 EXCEPT !.out = Append(@, StatusInvalid)]

-----------------------------------------------------------------------------
(* The images drawn *)

Zeros(n) == [i \in 1..n |-> 0]

\* d with d[i] = v, for i in range
Put(d, i, v) == [d EXCEPT ![i + 1] = v]

RomPaths == {<<"game.nes">>, <<"roms", "x">>}

\* a valid and two corrupted signatures
MagicSamples == {Magic, <<78, 69, 83, 0>>, <<110, 69, 83, 26>>}

\* bytes 4 to 7: page counts, flags and mapper nibbles
FieldSamples == {<<0, 0, 0, 0>>, <<2, 1, 11, 0>>, <<2, 1, 16, 32>>, <<255, 255, 255, 255>>}

\* bytes 8 onward: all zero, or one of them nonzero
TailSamples ==
    {Zeros(MaxLen - 8)} \cup {Put(Zeros(MaxLen - 8), k, 1) : k \in 0..(MaxLen - 9)}

Images ==
    {Slice(m \o f \o t, 0, n) :
        m \in MagicSamples, f \in FieldSamples, t \in TailSamples, n \in 0..MaxLen}

\* NesRom.__init__ on a file at path holding the bytes d
Constructed(path, d) ==
    /\ rom_name = basename(path)
    /\ rom_data = d
    /\ rom_size = Len(d)
    /\ op = "__init__"
    /\ ret = Return("None")
    /\ out = <<>>
    /\ calls = <<>>
    /\ analyses = 0

Init == \E path \in RomPaths, d \in Images : Constructed(path, d)

-----------------------------------------------------------------------------
(* One action per method call on the object *)

\* what an accessor call leaves alone: the object, and the last report
untouched == <<rom_name, rom_data, rom_size, out, calls, analyses>>

BatteryCall ==
    /\ op' = "battery"
    /\ ret' = battery(rom_data)
    /\ UNCHANGED untouched

FourscreenCall ==
    /\ op' = "fourscreen"
    /\ ret' = fourscreen(rom_data)
    /\ UNCHANGED untouched

TrainerCall ==
    /\ op' = "trainer"
    /\ ret' = trainer(rom_data)
    /\ UNCHANGED untouched

MapperIdCall ==
    /\ op' = "mapper_id"
    /\ ret' = mapper_id(rom_data)
    /\ UNCHANGED untouched

MapperCall ==
    /\ op' = "mapper"
    /\ ret' = mapper(rom_data)
    /\ UNCHANGED untouched

ExamplesCall ==
    /\ op' = "examples"
    /\ ret' = examples(rom_data)
    /\ UNCHANGED untouched

MirroringCall ==
    /\ op' = "mirroring"
    /\ ret' = mirroring(rom_data)
    /\ UNCHANGED untouched

\* header() that cuts rom_data down to the header it formats
HeaderCallTruncating ==
    /\ op' = "header"
    /\ ret' = header(rom_data)
    /\ rom_data' = Slice(rom_data, 0, 16)
    /\ UNCHANGED <<rom_name, rom_size, out, calls, analyses>>

HeaderCall ==
    /\ op' = "header"
    /\ ret' = header(rom_data)
    /\ UNCHANGED untouched

DirtyHeaderCall ==
    /\ op' = "dirty_header"
    /\ ret' = dirty_header(rom_data)
    /\ UNCHANGED untouched

ContainsMagicNumberCall ==
    /\ op' = "contains_magic_number"
    /\ ret' = contains_magic_number(rom_data)
    /\ UNCHANGED untouched

PrgCountCall ==
    /\ op' = "prg_count"
    /\ ret' = prg_count(rom_data)
    /\ UNCHANGED untouched

ChrCountCall ==
    /\ op' = "chr_count"
    /\ ret' = chr_count(rom_data)
    /\ UNCHANGED untouched

PrintAnalysis ==
    LET p == print_analysis(rom_name, rom_data, rom_size)
    IN  /\ analyses < MaxAnalyses
        /\ analyses' = analyses + 1
        /\ op' = "print_analysis"
        /\ ret' = IF p.raised THEN Raise ELSE Return("None")
        /\ out' = p.out
        /\ calls' = p.calls
        /\ UNCHANGED <<rom_name, rom_data, rom_size>>

Next ==
    \/ BatteryCall
    \/ FourscreenCall
    \/ TrainerCall
    \/ MapperIdCall
    \/ MapperCall
    \/ ExamplesCall
    \/ MirroringCall
    \/ HeaderCall
    \/ DirtyHeaderCall
    \/ ContainsMagicNumberCall
    \/ PrgCountCall
    \/ ChrCountCall
    \/ PrintAnalysis

Spec == Init /\ [][Next]_vars

-----------------------------------------------------------------------------
(* Specifications that draw the inputs of one decoding function in full *)

\* images of at least 16 bytes
FullLengths == {16, MaxLen}

\* the signature with one of its bytes set to any value
MagicImages ==
    {Slice(Put(Magic, i, v) \o f \o Zeros(MaxLen - 8), 0, n) :
        i \in 0..3, v \in Byte, f \in FieldSamples, n \in FullLengths}

InitMagic == \E d \in MagicImages : Constructed(<<"game.nes">>, d)

NextMagic == ContainsMagicNumberCall \/ PrintAnalysis

SpecMagic == InitMagic /\ [][NextMagic]_vars

\* every pair of values of bytes 6 and 7
MapperImages ==
    {Magic \o <<2, 1, b6, b7>> \o Zeros(MaxLen - 8) : b6 \in Byte, b7 \in Byte}

InitMapper == \E d \in MapperImages : Constructed(<<"game.nes">>, d)

NextMapper == MapperIdCall \/ MapperCall

SpecMapper == InitMapper /\ [][NextMapper]_vars

\* every value of byte 6, the bytes around it all clear or all set
FlagImages ==
    {Slice(Magic \o <<a, a, b6, a>> \o [i \in 1..(MaxLen - 8) |-> a], 0, n) :
        a \in {0, 255}, b6 \in Byte, n \in FullLengths}

InitFlags == \E d \in FlagImages : Constructed(<<"game.nes">>, d)

NextFlags == MirroringCall \/ BatteryCall \/ TrainerCall \/ FourscreenCall

SpecFlags == InitFlags /\ [][NextFlags]_vars

\* every value of byte 4 and every value of byte 5
PageImages ==
    {Magic \o <<b4, b5>> \o Zeros(MaxLen - 6) : b4 \in Byte, b5 \in {0, 1, 255}}
        \cup {Magic \o <<b4, b5>> \o Zeros(MaxLen - 6) : b4 \in {0, 2, 255}, b5 \in Byte}

InitPages == \E d \in PageImages : Constructed(<<"game.nes">>, d)

NextPages == PrgCountCall \/ ChrCountCall

SpecPages == InitPages /\ [][NextPages]_vars

-----------------------------------------------------------------------------
(* What the properties below speak of *)

Lines == {out[i] : i \in 1..Len(out)}

Called == {calls[i] : i \in 1..Len(calls)}

\* the accessors that decode bytes 4 to 7, and the scan of the reserved bytes
DecodingAccessors ==
    {"prg_count", "chr_count", "mapper", "examples", "mirroring", "trainer",
     "fourscreen", "battery", "dirty_header"}

HeaderLine == fmt_str("Header", header(rom_data).value)

\* bytes 0 to 3 are 'N', 'E', 'S', 0x1A
MagicMatches(d) ==
    /\ Len(d) >= 4
    /\ At(d, 0) = 78
    /\ At(d, 1) = 69
    /\ At(d, 2) = 83
    /\ At(d, 3) = 26

\* bit k of b
Bit(b, k) == (b \div (2 ^ k)) % 2

\* some byte at an index from 6 to 16 is nonzero
SomeScannedNonzero(d) == \E i \in 6..16 : i < Len(d) /\ At(d, i) # 0

Analysed == op = "print_analysis"

-----------------------------------------------------------------------------
\* C1: print_analysis never fails: on every image, of every length and
\* content, it runs to completion without an out-of-bounds error.
C1_AnalysisNeverFails == Analysed => ~ret.raised

\* C2: on every image shorter than 16 bytes print_analysis reports an
\* invalid status and decodes nothing: it calls none of the accessors of
\* bytes 4 to 7 nor the dirty-header scan.  (The code has one invalid status
\* text, which stands here for the "invalid - too short" of the claim.)
C2_ShortImageNotDecoded ==
    (Analysed /\ rom_size < 16) =>
        /\ StatusInvalid \in Lines
        /\ StatusValid \notin Lines
        /\ Called \cap DecodingAccessors = {}

\* C3: on an image of at least 16 bytes contains_magic_number is true exactly
\* when bytes 0 to 3 are 'N', 'E', 'S', 0x1A, and print_analysis reports the
\* valid status exactly then; changing any one of the four bytes of a valid
\* signature makes it false and no byte from index 4 on changes the result.
C3_MagicIffExact ==
    rom_size >= 16 =>
        /\ op = "contains_magic_number" =>
            /\ ~ret.raised
            /\ ret.value <=> MagicMatches(rom_data)
            /\ ret.value =>
                \A i \in 0..3 : \A v \in Byte \ {At(rom_data, i)} :
                    ~contains_magic_number(Put(rom_data, i, v)).value
            /\ \A i \in 4..(Len(rom_data) - 1) : \A v \in {0, 26, 78, 255} :
                    contains_magic_number(Put(rom_data, i, v)) = ret
        /\ Analysed =>
            /\ StatusValid \in Lines <=> MagicMatches(rom_data)
            /\ StatusInvalid \in Lines <=> ~MagicMatches(rom_data)

C3_Witness ==
    /\ op = "contains_magic_number"
    /\ rom_size >= 16
    /\ ~ret.value
    /\ At(rom_data, 0) = 78 /\ At(rom_data, 1) = 69 /\ At(rom_data, 2) = 83
    /\ At(rom_data, 3) = 27

\* C4 as claimed: on an image of at least 16 bytes whose signature is wrong
\* the report has the invalid status and the raw header bytes, and nothing
\* is decoded.
C4_InvalidReportHasHeader ==
    (Analysed /\ rom_size >= 16 /\ ~MagicMatches(rom_data)) =>
        /\ StatusInvalid \in Lines
        /\ HeaderLine \in Lines
        /\ Called \cap DecodingAccessors = {}

\* C4 as amended: on an image of at least 16 bytes whose signature is wrong
\* print_analysis completes having printed the version line, a blank line,
\* the ROM line and the invalid status and nothing else: no header bytes and
\* no decoded field, and it has called contains_magic_number alone.
C4_InvalidReportStatusOnly ==
    (Analysed /\ rom_size >= 16 /\ ~MagicMatches(rom_data)) =>
        /\ ~ret.raised
        /\ Len(out) = 4
        /\ out[1] = nesi_information
        /\ out[3] = rom_line(rom_name, rom_size)
        /\ out[4] = StatusInvalid
        /\ HeaderLine \notin Lines
        /\ calls = <<"contains_magic_number">>

C4_Witness ==
    /\ Analysed
    /\ rom_size >= 16
    /\ At(rom_data, 0) = 78 /\ At(rom_data, 1) = 69 /\ At(rom_data, 2) = 83
    /\ At(rom_data, 3) = 0
    /\ At(rom_data, 6) # 0
    /\ out[Len(out)] = StatusInvalid

\* C5: on an image that has all of the scanned bytes, dirty_header is true
\* exactly when some byte at an index from 6 to 16 is nonzero, and
\* print_analysis prints the 'not clean' note exactly then.
C5_DirtyIffNonzero ==
    rom_size >= 17 =>
        /\ op = "dirty_header" => (ret.value <=> SomeScannedNonzero(rom_data))
        /\ (Analysed /\ "dirty_header" \in Called) =>
                (NotesDirty \in Lines <=> SomeScannedNonzero(rom_data))

\* C6: mapper_id is (byte6 div 16) + 16 * (byte7 div 16): it lies in 0..255,
\* its low nibble is the high nibble of byte 6, its high nibble that of byte
\* 7, the low nibbles of the two bytes do not matter, and 0x10, 0x20 give 33.
C6_MapperId ==
    (op = "mapper_id" /\ rom_size >= 16) =>
        LET b6 == At(rom_data, 6)
            b7 == At(rom_data, 7)
        IN  /\ ~ret.raised
            /\ ret.value = (b6 \div 16) + 16 * (b7 \div 16)
            /\ ret.value \in 0..255
            /\ ret.value % 16 = b6 \div 16
            /\ ret.value \div 16 = b7 \div 16
            /\ ret = mapper_id(Put(Put(rom_data, 6, b6 - (b6 % 16)), 7, b7 - (b7 % 16)))
            /\ (b6 = 16 /\ b7 = 32) => ret.value = 33

C6_Witness ==
    /\ op = "mapper_id"
    /\ At(rom_data, 6) = 16
    /\ At(rom_data, 7) = 32
    /\ ret.value = 33

\* C7: each flag is one bit of byte 6 and nothing else: mirroring is Vertical
\* iff bit 0 is set, battery is 'Yes' iff bit 1 is, trainer is 'Yes' iff bit
\* 2 is, fourscreen is 'Yes' iff bit 3 is; bits 4 to 7 of byte 6 change none.
C7_FlagBits ==
    rom_size >= 16 =>
        LET b6  == At(rom_data, 6)
            low == Put(rom_data, 6, b6 % 16)
        IN  /\ op = "mirroring" =>
                /\ ret = Return(IF Bit(b6, 0) = 1 THEN "Vertical" ELSE "Horizontal")
                /\ ret = mirroring(low)
            /\ op = "battery" =>
                /\ ret = Return(IF Bit(b6, 1) = 1 THEN "Yes" ELSE "No")
                /\ ret = battery(low)
            /\ op = "trainer" =>
                /\ ret = Return(IF Bit(b6, 2) = 1 THEN "Yes" ELSE "None")
                /\ ret = trainer(low)
            /\ op = "fourscreen" =>
                /\ ret = Return(IF Bit(b6, 3) = 1 THEN "Yes" ELSE "No")
                /\ ret = fourscreen(low)

C7_Witness ==
    /\ op = "battery"
    /\ At(rom_data, 6) = 11
    /\ At(rom_data, 7) = 255
    /\ ret.value = "Yes"

\* C8: prg_count is '<16*n>kb (<n> x 16kb pages)' for byte 4 = n and chr_count
\* is '<8*m>kb (<m> x 8kb pages)' for byte 5 = m, the totals exact products.
C8_PageSizes ==
    rom_size >= 16 =>
        LET n == At(rom_data, 4)
            m == At(rom_data, 5)
        IN  /\ op = "prg_count" =>
                /\ ret = Return(ToString(16 * n) \o "kb (" \o ToString(n) \o " x 16kb pages)")
                /\ n = 2 => ret.value = "32kb (2 x 16kb pages)"
                /\ n = 255 => ret.value = "4080kb (255 x 16kb pages)"
            /\ op = "chr_count" =>
                /\ ret = Return(ToString(8 * m) \o "kb (" \o ToString(m) \o " x 8kb pages)")
                /\ m = 1 => ret.value = "8kb (1 x 8kb pages)"
                /\ m = 255 => ret.value = "2040kb (255 x 8kb pages)"

C8_Witness ==
    /\ op = "prg_count"
    /\ At(rom_data, 4) = 255
    /\ ret.value = "4080kb (255 x 16kb pages)"

\* C9: no call changes rom_data, rom_name or rom_size, rom_size stays the
\* length of rom_data, and a print_analysis that follows an earlier one, with
\* any accessor calls in between, prints the same lines and makes the same
\* calls.
C9_ImageUntouched ==
    [][/\ rom_data' = rom_data
       /\ rom_name' = rom_name
       /\ rom_size' = rom_size
       /\ rom_size' = Len(rom_data')
       /\ (analyses >= 1 /\ op' = "print_analysis") => (out' = out /\ calls' = calls)]_vars

C9_Witness ==
    /\ Analysed
    /\ analyses = 2
    /\ rom_size >= 16
    /\ StatusValid \in Lines
    /\ rom_size = Len(rom_data)

\* the bytes that may follow the 16 of the header
RECURSIVE TailsOf(_)
TailsOf(n) ==
    IF n = 0 THEN {<<>>}
    ELSE TailsOf(n - 1) \cup {Append(t, b) : t \in {u \in TailsOf(n - 1) : Len(u) = n - 1},
                                             b \in {0, 1}}

\* the images of at least 16 bytes that agree with d on bytes 0 to 15
SameHeader(d) == {Slice(d, 0, 16) \o t : t \in TailsOf(MaxLen - 16)}

\* C10: every decoded result depends on bytes 0 to 15 alone: an image that
\* agrees with this one on its first 16 bytes gives the same result from
\* every accessor and the same report from the status line on.
C10_FirstSixteenOnly ==
    rom_size >= 16 =>
        \A e \in SameHeader(rom_data) :
            /\ op = "contains_magic_number" => contains_magic_number(e) = ret
            /\ op = "header" => header(e) = ret
            /\ op = "prg_count" => prg_count(e) = ret
            /\ op = "chr_count" => chr_count(e) = ret
            /\ op = "mapper_id" => mapper_id(e) = ret
            /\ op = "mirroring" => mirroring(e) = ret
            /\ op = "battery" => battery(e) = ret
            /\ op = "trainer" => trainer(e) = ret
            /\ op = "fourscreen" => fourscreen(e) = ret
            /\ op = "dirty_header" => dirty_header(e) = ret
            /\ Analysed =>
                LET other == print_analysis(rom_name, e, Len(e)).out
                IN  SubSeq(other, 4, Len(other)) = SubSeq(out, 4, Len(out))

====
